---------------------------- MODULE Spec2Model ----------------------------
(***************************************************************************)
(* A model of src/mc/mctypes.rs: the VarInt codec (to_varint,              *)
(* from_varint_bytes), the VarInt value type built on it, and MCString,    *)
(* the length-prefixed string.                                             *)
(*                                                                         *)
(* An i32 is a TLA+ integer in -2^31 .. 2^31-1.  The bit operations of the *)
(* source (&, |, !, <<, logical >> through u32, `as u8`) are computed on   *)
(* the two's-complement representation of their operands, so that sign     *)
(* and truncation behave as they do in the machine.                        *)
(***************************************************************************)
EXTENDS Integers, Sequences, FiniteSets

VARIABLES
    pc,         \* position of the program under analysis
    v,          \* an i32 handed to to_varint
    trail,      \* bytes that follow an encoded VarInt in a packet slice
    enc,        \* the Vec<u8> returned by to_varint
    buf,        \* a &[u8] handed to the decoder
    dec,        \* the outcome of from_varint_bytes(buf)
    varint,     \* a VarInt instance (fields bytes, value)
    op,         \* the last operation applied to varint, with its argument
    old,        \* the receiver of the last set as it was before the call
    text,       \* a String handed to MCString::from
    mcstring,   \* an MCString instance (fields size, string)
    out         \* what to_bytes() and size() returned for the instance

vars == <<pc, v, trail, enc, buf, dec, varint, op, old, text, mcstring, out>>

---------------------------------------------------------------------------
(* Bounds of the model.                                                    *)

MaxTrail == 2
MaxBufLen == 6
MaxTextLen == 2

---------------------------------------------------------------------------
(* 32-bit two's-complement arithmetic.  An i32 is split into its four      *)
(* bytes (floor division gives the two's-complement digits of a negative   *)
(* number); & and | work byte by byte on the bits of each byte.            *)

I32_MAX == 2147483647
I32_MIN == -I32_MAX - 1

Pow2Tab ==
    << 1, 2, 4, 8, 16, 32, 64, 128, 256, 512, 1024, 2048, 4096, 8192, 16384,
       32768, 65536, 131072, 262144, 524288, 1048576, 2097152, 4194304,
       8388608, 16777216, 33554432, 67108864, 134217728, 268435456,
       536870912, 1073741824 >>

Pow2(n) == Pow2Tab[n + 1]

RECURSIVE AndBits(_, _, _)
AndBits(a, b, n) ==
    IF n = 0 THEN 0
    ELSE (a % 2) * (b % 2) + 2 * AndBits(a \div 2, b \div 2, n - 1)

RECURSIVE OrBits(_, _, _)
OrBits(a, b, n) ==
    IF n = 0 THEN 0
    ELSE (IF (a % 2) + (b % 2) > 0 THEN 1 ELSE 0)
             + 2 * OrBits(a \div 2, b \div 2, n - 1)

\* & and | on two bytes, tabulated.
AndByte == [a \in 0..255 |-> [b \in 0..255 |-> AndBits(a, b, 8)]]
OrByte == [a \in 0..255 |-> [b \in 0..255 |-> OrBits(a, b, 8)]]

\* The four bytes of an i32, least significant first, each in 0..255.
ToBytes4(x) ==
    << x % 256, (x \div 256) % 256, (x \div 65536) % 256,
       (x \div 16777216) % 256 >>

\* The i32 of four bytes; the top byte carries the sign.
FromBytes4(c) ==
    (((IF c[4] >= 128 THEN c[4] - 256 ELSE c[4]) * 256 + c[3]) * 256 + c[2])
        * 256 + c[1]

And32(a, b) ==
    LET x == ToBytes4(a)
        y == ToBytes4(b)
    IN  FromBytes4([i \in 1..4 |-> AndByte[x[i]][y[i]]])

Or32(a, b) ==
    LET x == ToBytes4(a)
        y == ToBytes4(b)
    IN  FromBytes4([i \in 1..4 |-> OrByte[x[i]][y[i]]])

\* !a: every bit of every byte inverted.
Not32(a) ==
    LET x == ToBytes4(a)
    IN  FromBytes4([i \in 1..4 |-> 255 - x[i]])

\* a << n on i32, 0 <= n <= 30: bits 0 .. 31-n of a move up by n, bit 31-n
\* becomes the sign, the bits above it are lost.
Shl32(a, n) ==
    IF n = 0 THEN a
    ELSE LET low == a % Pow2(31 - n)
             sign == (a \div Pow2(31 - n)) % 2
         IN  (low - sign * Pow2(31 - n)) * Pow2(n)

\* ((a as u32) >> n) as i32, 0 <= n <= 30: zeros enter from the top.
LShr32(a, n) ==
    IF n = 0 \/ a >= 0 THEN a \div Pow2(n)
    ELSE ((a \div Pow2(n)) + Pow2(31 - n)) + Pow2(31 - n)

\* a >> n on i32, 0 <= n <= 30: the sign bit enters from the top.
AShr32(a, n) == a \div Pow2(n)

\* a as u8: the low eight bits.
AsU8(a) == a % 256

---------------------------------------------------------------------------
(* The codec.                                                              *)

SEGMENT_BITS == 127
CONTINUE_BIT == 128

RECURSIVE to_varint_loop(_, _)
to_varint_loop(value, bytes) ==
    IF And32(value, Not32(SEGMENT_BITS)) = 0
    THEN Append(bytes, AsU8(value))
    ELSE to_varint_loop(
             LShr32(value, 7),
             Append(bytes, AsU8(Or32(And32(value, SEGMENT_BITS), CONTINUE_BIT))))

\* to_varint with the last-byte test on six bits instead of seven.
RECURSIVE to_varint_loop_6bit(_, _)
to_varint_loop_6bit(value, bytes) ==
    IF And32(value, Not32(63)) = 0
    THEN Append(bytes, AsU8(value))
    ELSE to_varint_loop_6bit(
             LShr32(value, 7),
             Append(bytes, AsU8(Or32(And32(value, SEGMENT_BITS), CONTINUE_BIT))))

to_varint_6bit(value) == to_varint_loop_6bit(value, << >>)

\* to_varint with the signed shift `value >>= 7`; the loop of a negative
\* value never ends, and is cut here once it has pushed eight bytes.
RECURSIVE to_varint_loop_signed(_, _)
to_varint_loop_signed(value, bytes) ==
    IF And32(value, Not32(SEGMENT_BITS)) = 0 \/ Len(bytes) >= 8
    THEN Append(bytes, AsU8(value))
    ELSE to_varint_loop_signed(
             AShr32(value, 7),
             Append(bytes, AsU8(Or32(And32(value, SEGMENT_BITS), CONTINUE_BIT))))

to_varint_signed(value) == to_varint_loop_signed(value, << >>)

to_varint(value) == to_varint_loop(value, << >>)

\* The outcome of from_varint_bytes: a returned value or a panic, with the
\* number of bytes the loop took from the iterator.
Returned(value, read) == [panicked |-> FALSE, value |-> value, read |-> read]
Panicked(read) == [panicked |-> TRUE, read |-> read]

RECURSIVE from_varint_loop(_, _, _, _)
from_varint_loop(bytes, i, value, pos) ==
    IF i > Len(bytes)
    THEN Returned(value, i - 1)
    ELSE LET b == bytes[i]
             value2 == Or32(value, Shl32(And32(b, SEGMENT_BITS), pos))
         IN  IF And32(b, CONTINUE_BIT) = 0
             THEN Returned(value2, i)
             ELSE IF pos + 7 >= 32
                  THEN Panicked(i)
                  ELSE from_varint_loop(bytes, i + 1, value2, pos + 7)

\* from_varint_bytes without `& SEGMENT_BITS`: the flag bit enters the value.
RECURSIVE from_varint_loop_unmasked(_, _, _, _)
from_varint_loop_unmasked(bytes, i, value, pos) ==
    IF i > Len(bytes)
    THEN Returned(value, i - 1)
    ELSE LET b == bytes[i]
             value2 == Or32(value, Shl32(b, pos))
         IN  IF And32(b, CONTINUE_BIT) = 0
             THEN Returned(value2, i)
             ELSE IF pos + 7 >= 32
                  THEN Panicked(i)
                  ELSE from_varint_loop_unmasked(bytes, i + 1, value2, pos + 7)

from_varint_bytes_unmasked(bytes) == from_varint_loop_unmasked(bytes, 1, 0, 0)

\* from_varint_bytes without the `break`: the loop runs to the end of the
\* slice, or to the panic.
RECURSIVE from_varint_loop_nobreak(_, _, _, _)
from_varint_loop_nobreak(bytes, i, value, pos) ==
    IF i > Len(bytes)
    THEN Returned(value, i - 1)
    ELSE LET b == bytes[i]
             value2 == Or32(value, Shl32(And32(b, SEGMENT_BITS), pos))
         IN  IF pos + 7 >= 32
             THEN Panicked(i)
             ELSE from_varint_loop_nobreak(bytes, i + 1, value2, pos + 7)

from_varint_bytes_nobreak(bytes) == from_varint_loop_nobreak(bytes, 1, 0, 0)

\* from_varint_bytes with the limit of a VarLong, `pos >= 64`; the shift
\* amount of an i32 is taken modulo 32.
RECURSIVE from_varint_loop_varlong(_, _, _, _)
from_varint_loop_varlong(bytes, i, value, pos) ==
    IF i > Len(bytes)
    THEN Returned(value, i - 1)
    ELSE LET b == bytes[i]
             value2 == Or32(value, Shl32(And32(b, SEGMENT_BITS), pos % 32))
         IN  IF And32(b, CONTINUE_BIT) = 0
             THEN Returned(value2, i)
             ELSE IF pos + 7 >= 64
                  THEN Panicked(i)
                  ELSE from_varint_loop_varlong(bytes, i + 1, value2, pos + 7)

from_varint_bytes_varlong(bytes) == from_varint_loop_varlong(bytes, 1, 0, 0)

\* from_varint_bytes with the size test at the head of the loop body, before
\* the byte is used: the panic comes with the sixth flagged byte.
RECURSIVE from_varint_loop_late(_, _, _, _)
from_varint_loop_late(bytes, i, value, pos) ==
    IF i > Len(bytes)
    THEN Returned(value, i - 1)
    ELSE IF pos >= 32
         THEN Panicked(i)
         ELSE LET b == bytes[i]
                  value2 == Or32(value, Shl32(And32(b, SEGMENT_BITS), pos))
              IN  IF And32(b, CONTINUE_BIT) = 0
                  THEN Returned(value2, i)
                  ELSE from_varint_loop_late(bytes, i + 1, value2, pos + 7)

from_varint_bytes_late(bytes) == from_varint_loop_late(bytes, 1, 0, 0)

from_varint_bytes(bytes) == from_varint_loop(bytes, 1, 0, 0)

---------------------------------------------------------------------------
(* VarInt.                                                                 *)

\* What a constructor gives: an instance, or a panic and no instance.
Built(self) == [panicked |-> FALSE, self |-> self]
Unwound == [panicked |-> TRUE]

VarInt_from_i32(value) == [bytes |-> to_varint(value), value |-> value]

\* impl From<i32> for VarInt
VarInt_from(value) == [bytes |-> to_varint(value), value |-> value]

VarInt_from_bytes(bytes) ==
    LET r == from_varint_bytes(bytes)
    IN  IF r.panicked THEN Unwound
        ELSE Built([bytes |-> bytes, value |-> r.value])

\* impl From<&[u8]> for VarInt
VarInt_from_slice(bytes) ==
    LET r == from_varint_bytes(bytes)
    IN  IF r.panicked THEN Unwound
        ELSE Built([bytes |-> bytes, value |-> r.value])

VarInt_to_bytes(self) == << >> \o self.bytes

\* usize -> i32 by try_into().unwrap(); the slices of the model are short.
VarInt_size(self) == Len(self.bytes)

VarInt_len(self) == Len(self.bytes)
VarInt_bytes(self) == self.bytes
VarInt_value(self) == self.value

\* set that stores the value and leaves the bytes as they were.
VarInt_set_value_only(self, value) == [self EXCEPT !.value = value]

VarInt_set(self, value) ==
    LET self1 == [self EXCEPT !.value = value]
    IN  [self1 EXCEPT !.bytes = to_varint(self1.value)]

---------------------------------------------------------------------------
(* MCString.                                                               *)
(*                                                                         *)
(* A String is held as the characters of its head (Unicode scalar values)  *)
(* followed by `pad` further characters 'a', so that a text of two         *)
(* gigabytes is a small value.  A long Vec<u8> is held the same way: the   *)
(* bytes of its head, then `pad` further bytes 0x61.                       *)

\* The UTF-8 encoding of one scalar value.
Utf8Char(c) ==
    IF c < 128 THEN << c >>
    ELSE IF c < 2048 THEN << 192 + (c \div 64), 128 + (c % 64) >>
    ELSE IF c < 65536
         THEN << 224 + (c \div 4096), 128 + ((c \div 64) % 64), 128 + (c % 64) >>
    ELSE << 240 + (c \div 262144), 128 + ((c \div 4096) % 64),
            128 + ((c \div 64) % 64), 128 + (c % 64) >>

RECURSIVE Utf8(_)
Utf8(chars) ==
    IF chars = << >> THEN << >> ELSE Utf8Char(Head(chars)) \o Utf8(Tail(chars))

\* String::as_bytes
as_bytes(string) == [head |-> Utf8(string.head), pad |-> string.pad]

\* String::len() followed by try_into::<i32>(): Ok(n), or Err when the byte
\* count is above i32::MAX.
len_try_into_i32(string) ==
    LET n == Len(Utf8(string.head))
    IN  IF string.pad > I32_MAX - n
        THEN [ok |-> FALSE]
        ELSE [ok |-> TRUE, num |-> n + string.pad]

\* MCString::from with the count of characters for the count of bytes.
MCString_from_chars(value) ==
    Built([size |-> VarInt_from(Len(value.head) + value.pad), string |-> value])

MCString_from(value) ==
    LET size == len_try_into_i32(value)
    IN  IF ~size.ok THEN Unwound
        ELSE Built([size |-> VarInt_from(size.num), string |-> value])

MCString_to_bytes(self) ==
    LET prefix == VarInt_to_bytes(self.size)
        content == as_bytes(self.string)
    IN  [head |-> (<< >> \o prefix) \o content.head, pad |-> content.pad]

\* The i32 addition of size(): where the sum passes i32::MAX a build with
\* overflow checks panics and a build without them wraps.
MCString_size(self, overflow_checks) ==
    LET a == VarInt_len(self.size)
        b == len_try_into_i32(self.string)
    IN  IF ~b.ok THEN Unwound
        ELSE IF b.num > I32_MAX - a
             THEN IF overflow_checks THEN Unwound
                  ELSE [panicked |-> FALSE,
                        value |-> (a + I32_MIN) + (b.num + I32_MIN)]
             ELSE [panicked |-> FALSE, value |-> a + b.num]

---------------------------------------------------------------------------
(* Inputs.                                                                 *)

RECURSIVE SeqsUpTo(_, _)
SeqsUpTo(S, n) ==
    IF n = 0 THEN { << >> }
    ELSE LET shorter == SeqsUpTo(S, n - 1)
         IN  shorter \cup { Append(s, x) : s \in shorter, x \in S }

\* i32 values: both sides of every power of two, positive and negative (the
\* edges of every encoded length among them), the extremes, and the values
\* of the known vectors.
Values ==
    { 0, 6, 255, 25565, I32_MAX, I32_MIN + 1, I32_MIN }
        \cup { Pow2(k) : k \in 0..30 } \cup { Pow2(k) - 1 : k \in 0..30 }
        \cup { -Pow2(k) : k \in 0..30 } \cup { -Pow2(k) - 1 : k \in 0..30 }

\* Bytes with and without the continuation bit, with empty and full segments.
SampleBytes == { 0, 127, 128, 255 }

Trails == SeqsUpTo(SampleBytes, MaxTrail)
Buffers == SeqsUpTo(SampleBytes, MaxBufLen)

\* The values and slices a VarInt instance is built from and set to: slices
\* that hold an encoding and a trail, and slices that hold none.
InstanceValues == { 0, 127, 128, 25565, I32_MAX, -1, I32_MIN }
InstanceTrails == SeqsUpTo({ 0, 255 }, MaxTrail)
InstanceSlices ==
    { to_varint(x) \o t : x \in InstanceValues, t \in InstanceTrails }
        \cup { << >>, << 128 >>, << 128, 0 >>, << 255, 255, 255, 255, 255 >> }

\* 'H', e-acute (two bytes), the euro sign (three), an emoji (four).
SampleChars == { 72, 233, 8364, 128512 }
Hello == << 72, 101, 108, 108, 111, 33 >>
Pads == { 0, 125, I32_MAX - 8, I32_MAX - 3 }
Texts ==
    { [head |-> h, pad |-> p] :
          h \in SeqsUpTo(SampleChars, MaxTextLen) \cup { Hello }, p \in Pads }

\* The variables a specification does not use stay as they are here.
NotRun == [panicked |-> FALSE, value |-> 0, read |-> 0]
NoVarInt == [absent |-> TRUE]
NoOp == [name |-> "none", value |-> 0, bytes |-> << >>]
NoText == [head |-> << >>, pad |-> 0]
NoMCString == [absent |-> TRUE]
NotCalled == [called |-> FALSE]
NoOut == [bytes |-> NotCalled, size |-> NotCalled]

codecVars == <<v, trail, enc, buf, dec>>
instanceVars == <<varint, op, old>>
stringVars == <<text, mcstring, out>>

CodecIdle == v = 0 /\ trail = << >> /\ enc = << >> /\ buf = << >> /\ dec = NotRun
InstanceIdle == varint = NoVarInt /\ op = NoOp /\ old = NoVarInt
StringIdle == text = NoText /\ mcstring = NoMCString /\ out = NoOut

---------------------------------------------------------------------------
(* SpecEncode: to_varint on a value, then from_varint_bytes, directly or   *)
(* through VarInt::from_bytes, on the bytes it returned and a trail.       *)

InitEncode ==
    /\ pc = "input"
    /\ v \in Values
    /\ trail \in Trails
    /\ enc = << >> /\ buf = << >> /\ dec = NotRun
    /\ InstanceIdle /\ StringIdle

Encode ==
    /\ pc = "input"
    /\ enc' = to_varint(v)
    /\ buf' = enc' \o trail
    /\ pc' = "encoded"
    /\ UNCHANGED <<v, trail, dec, instanceVars, stringVars>>

Decode ==
    /\ pc = "encoded"
    /\ dec' = from_varint_bytes(buf)
    /\ pc' = IF dec'.panicked THEN "panicked" ELSE "decoded"
    /\ UNCHANGED <<v, trail, enc, buf, instanceVars, stringVars>>

FromEncoded ==
    /\ pc = "encoded"
    /\ LET made == VarInt_from_bytes(buf)
       IN  /\ pc' = IF made.panicked THEN "panicked" ELSE "constructed"
           /\ varint' = IF made.panicked THEN varint ELSE made.self
    /\ dec' = from_varint_bytes(buf)
    /\ op' = [name |-> "from_bytes", value |-> 0, bytes |-> buf]
    /\ UNCHANGED <<v, trail, enc, buf, old, stringVars>>

NextEncode == Encode \/ Decode \/ FromEncoded

SpecEncode == InitEncode /\ [][NextEncode]_vars

---------------------------------------------------------------------------
(* SpecDecode: a slice of arbitrary bytes handed to from_varint_bytes,     *)
(* directly or through one of the two constructors that take a slice.      *)

InitDecode ==
    /\ pc = "input"
    /\ buf \in Buffers
    /\ v = 0 /\ trail = << >> /\ enc = << >> /\ dec = NotRun
    /\ InstanceIdle /\ StringIdle

DecodeSlice ==
    /\ pc = "input"
    /\ dec' = from_varint_bytes(buf)
    /\ pc' = IF dec'.panicked THEN "panicked" ELSE "decoded"
    /\ op' = [name |-> "from_varint_bytes", value |-> 0, bytes |-> buf]
    /\ UNCHANGED <<v, trail, enc, buf, varint, old, stringVars>>

ConstructFromBytes ==
    /\ pc = "input"
    /\ LET made == VarInt_from_bytes(buf)
       IN  /\ pc' = IF made.panicked THEN "panicked" ELSE "constructed"
           /\ varint' = IF made.panicked THEN varint ELSE made.self
    /\ dec' = from_varint_bytes(buf)
    /\ op' = [name |-> "from_bytes", value |-> 0, bytes |-> buf]
    /\ UNCHANGED <<v, trail, enc, buf, old, stringVars>>

ConstructFromSlice ==
    /\ pc = "input"
    /\ LET made == VarInt_from_slice(buf)
       IN  /\ pc' = IF made.panicked THEN "panicked" ELSE "constructed"
           /\ varint' = IF made.panicked THEN varint ELSE made.self
    /\ dec' = from_varint_bytes(buf)
    /\ op' = [name |-> "from_slice", value |-> 0, bytes |-> buf]
    /\ UNCHANGED <<v, trail, enc, buf, old, stringVars>>

NextDecode == DecodeSlice \/ ConstructFromBytes \/ ConstructFromSlice

SpecDecode == InitDecode /\ [][NextDecode]_vars

---------------------------------------------------------------------------
(* Spec: the life of one VarInt variable.  It is bound by a constructor,   *)
(* rebound by any constructor, and changed in place by set.  A panic ends  *)
(* the program with the variable as it was.                                *)

Init ==
    /\ pc = "live"
    /\ \E value \in InstanceValues :
           /\ varint = VarInt_from_i32(value)
           /\ op = [name |-> "from_i32", value |-> value, bytes |-> << >>]
    /\ old = NoVarInt
    /\ CodecIdle /\ StringIdle

FromI32(value) ==
    /\ pc = "live"
    /\ varint' = VarInt_from_i32(value)
    /\ op' = [name |-> "from_i32", value |-> value, bytes |-> << >>]
    /\ old' = NoVarInt
    /\ UNCHANGED <<pc, codecVars, stringVars>>

From(value) ==
    /\ pc = "live"
    /\ varint' = VarInt_from(value)
    /\ op' = [name |-> "from", value |-> value, bytes |-> << >>]
    /\ old' = NoVarInt
    /\ UNCHANGED <<pc, codecVars, stringVars>>

FromBytes(bytes) ==
    /\ pc = "live"
    /\ LET made == VarInt_from_bytes(bytes)
       IN  /\ pc' = IF made.panicked THEN "panicked" ELSE "live"
           /\ varint' = IF made.panicked THEN varint ELSE made.self
    /\ op' = [name |-> "from_bytes", value |-> 0, bytes |-> bytes]
    /\ old' = NoVarInt
    /\ UNCHANGED <<codecVars, stringVars>>

FromSlice(bytes) ==
    /\ pc = "live"
    /\ LET made == VarInt_from_slice(bytes)
       IN  /\ pc' = IF made.panicked THEN "panicked" ELSE "live"
           /\ varint' = IF made.panicked THEN varint ELSE made.self
    /\ op' = [name |-> "from_slice", value |-> 0, bytes |-> bytes]
    /\ old' = NoVarInt
    /\ UNCHANGED <<codecVars, stringVars>>

Set(value) ==
    /\ pc = "live"
    /\ varint' = VarInt_set(varint, value)
    /\ op' = [name |-> "set", value |-> value, bytes |-> << >>]
    /\ old' = varint
    /\ UNCHANGED <<pc, codecVars, stringVars>>

Next ==
    \/ \E value \in InstanceValues : FromI32(value)
    \/ \E value \in InstanceValues : From(value)
    \/ \E bytes \in InstanceSlices : FromBytes(bytes)
    \/ \E bytes \in InstanceSlices : FromSlice(bytes)
    \/ \E value \in InstanceValues : Set(value)

Spec == Init /\ [][Next]_vars

---------------------------------------------------------------------------
(* SpecString: MCString::from on a String, then to_bytes() and size() on   *)
(* the instance, in either order.                                          *)

InitString ==
    /\ pc = "input"
    /\ text \in Texts
    /\ mcstring = NoMCString
    /\ out = NoOut
    /\ CodecIdle /\ InstanceIdle

Construct ==
    /\ pc = "input"
    /\ LET made == MCString_from(text)
       IN  /\ pc' = IF made.panicked THEN "panicked" ELSE "constructed"
           /\ mcstring' = IF made.panicked THEN mcstring ELSE made.self
    /\ UNCHANGED <<text, out, codecVars, instanceVars>>

ToBytes ==
    /\ pc = "constructed"
    /\ ~out.bytes.called
    /\ out' = [out EXCEPT
                  !.bytes = [called |-> TRUE, vec |-> MCString_to_bytes(mcstring)]]
    /\ UNCHANGED <<pc, text, mcstring, codecVars, instanceVars>>

Size ==
    /\ pc = "constructed"
    /\ ~out.size.called
    /\ \E overflow_checks \in BOOLEAN :
           LET r == MCString_size(mcstring, overflow_checks)
           IN  /\ out' = [out EXCEPT
                             !.size = IF r.panicked
                                      THEN [called |-> TRUE, panicked |-> TRUE]
                                      ELSE [called |-> TRUE, panicked |-> FALSE,
                                            value |-> r.value]]
               /\ pc' = IF r.panicked THEN "panicked" ELSE pc
    /\ UNCHANGED <<text, mcstring, codecVars, instanceVars>>

NextString == Construct \/ ToBytes \/ Size

SpecString == InitString /\ [][NextString]_vars

---------------------------------------------------------------------------
(* Properties of the codec on its own.                                     *)

HasContinue(b) == b >= 128

\* Every byte but the last carries the continuation bit; the last does not.
WellFormed(bytes) ==
    /\ Len(bytes) >= 1
    /\ \A i \in 1..(Len(bytes) - 1) : HasContinue(bytes[i])
    /\ ~HasContinue(bytes[Len(bytes)])

\* Well-formed sequences shorter than the longest encoding.
ShortWellFormed ==
    { b \in SeqsUpTo({ 0, 1, 127, 128, 129, 255 }, 4) : WellFormed(b) }

\* What the decoder returns for each of them, with its length.
ShortDecodes ==
    { [len |-> Len(b), value |-> from_varint_bytes(b).value] :
          b \in ShortWellFormed }

\* The algorithm of the wire format on the unsigned reinterpretation of an
\* i32, held as two 16-bit halves u = hi * 65536 + lo: emit u mod 128 with
\* the flag while u >= 128, dividing u by 128 after each byte.
U32Hi(x) == (x \div 65536) % 65536
U32Lo(x) == x % 65536

RECURSIVE RefEncodeU32(_, _)
RefEncodeU32(hi, lo) ==
    IF hi = 0 /\ lo < 128
    THEN << lo >>
    ELSE << (lo % 128) + 128 >>
             \o RefEncodeU32(hi \div 128, ((hi % 128) * 512) + (lo \div 128))

RefEncode(x) == RefEncodeU32(U32Hi(x), U32Lo(x))

\* C2: round trip. Decoding exactly the bytes that to_varint produced for
\* any i32 (negative, zero, i32::MIN, i32::MAX) does not panic and returns
\* the i32 that was encoded.
C2_RoundTrip ==
    (pc \in { "decoded", "panicked" } /\ trail = << >>) =>
        (pc = "decoded" /\ ~dec.panicked /\ dec.value = v)

C2_Witness ==
    /\ pc = "decoded" /\ trail = << >> /\ v = I32_MIN
    /\ buf = << 128, 128, 128, 128, 8 >> /\ dec.value = I32_MIN

\* C4: minimality. to_varint returns 1 to 5 bytes, every byte but the last
\* with the continuation bit, the last without, the last non-zero unless it
\* is the only byte; and no shorter well-formed sequence decodes to the
\* value: an encoding of n > 1 bytes is of a value outside 0 .. 2^(7(n-1))-1,
\* the range shorter sequences cover.
C4_Minimal ==
    pc # "input" =>
        /\ Len(enc) \in 1..5
        /\ WellFormed(enc)
        /\ (Len(enc) > 1 => enc[Len(enc)] # 0)
        /\ (Len(enc) > 1 => (v < 0 \/ v >= Pow2(7 * (Len(enc) - 1))))
        /\ \A d \in ShortDecodes : d.len < Len(enc) => d.value # v

C4_Witness == pc = "encoded" /\ v = 2097152 /\ enc = << 128, 128, 128, 1 >>

\* C5: to_varint agrees with the wire format's algorithm run on the unsigned
\* reinterpretation of the value with a logical shift; every negative value
\* takes five bytes; the known vectors hold.
KnownVectors ==
    { << 0, << 0 >> >>, << 1, << 1 >> >>, << 127, << 127 >> >>,
      << 128, << 128, 1 >> >>, << 255, << 255, 1 >> >>,
      << 25565, << 221, 199, 1 >> >>,
      << I32_MAX, << 255, 255, 255, 255, 7 >> >>,
      << -1, << 255, 255, 255, 255, 15 >> >>,
      << I32_MIN, << 128, 128, 128, 128, 8 >> >> }

C5_Reference ==
    pc # "input" =>
        /\ enc = RefEncode(v)
        /\ (v < 0 => Len(enc) = 5)
        /\ \A kv \in KnownVectors : v = kv[1] => enc = kv[2]

C5_Witness == pc = "encoded" /\ v = -1 /\ enc = << 255, 255, 255, 255, 15 >>

\* C7: truncation tolerance. Decoding the encoding of any i32 followed by
\* any trailing bytes does not panic, returns the i32, and takes from the
\* buffer exactly the bytes of the encoding, none of the trail; the value
\* of a VarInt built by from_bytes from such a buffer is the i32.
C7_TrailIgnored ==
    pc \in { "decoded", "constructed", "panicked" } =>
        /\ pc # "panicked"
        /\ ~dec.panicked
        /\ dec.value = v
        /\ dec.read = Len(enc)
        /\ dec = from_varint_bytes(enc)
        /\ (pc = "constructed" => VarInt_value(varint) = v)

C7_Witness ==
    /\ pc = "decoded" /\ v = -129 /\ trail = << 255, 128 >>
    /\ dec.value = -129 /\ dec.read = 5 /\ Len(buf) = 7


---------------------------------------------------------------------------
(* Properties of from_varint_bytes on arbitrary slices.                    *)

AllFlagged(bytes) == \A i \in 1..Len(bytes) : HasContinue(bytes[i])

FirstFiveFlagged(bytes) ==
    Len(bytes) >= 5 /\ \A i \in 1..5 : HasContinue(bytes[i])

\* The segments of at most four bytes, least significant first.
RECURSIVE SegmentSum(_, _)
SegmentSum(bytes, i) ==
    IF i > Len(bytes) THEN 0
    ELSE (bytes[i] % 128) * Pow2(7 * (i - 1)) + SegmentSum(bytes, i + 1)

\* C6: malformed decode. A slice of six bytes that all carry the
\* continuation bit makes the decoder panic: no value is returned and no
\* VarInt is constructed from it.
C6_SixFlaggedPanic ==
    (pc # "input" /\ Len(buf) = 6 /\ AllFlagged(buf)) =>
        (pc = "panicked" /\ dec.panicked /\ varint = NoVarInt)

C6_Witness ==
    /\ pc = "panicked" /\ op.name = "from_bytes"
    /\ buf = << 255, 128, 255, 128, 255, 128 >>

\* C10: from_varint_bytes panics exactly when the first five bytes of the
\* slice exist and all carry the continuation bit (five such bytes are
\* enough); on every other slice it returns: 0 for the empty slice, and
\* for one to four bytes that all carry the bit the segments read so far.
C10_PanicIffFiveFlagged ==
    pc # "input" =>
        /\ dec.panicked <=> FirstFiveFlagged(buf)
        /\ (pc = "panicked") <=> dec.panicked
        /\ buf = << >> => dec = Returned(0, 0)
        /\ (Len(buf) \in 1..4 /\ AllFlagged(buf)) =>
               dec = Returned(SegmentSum(buf, 1), Len(buf))

C10_Witness ==
    /\ pc = "panicked" /\ op.name = "from_varint_bytes"
    /\ buf = << 128, 128, 128, 128, 128 >> /\ dec.read = 5

---------------------------------------------------------------------------
(* Properties of a VarInt instance.                                        *)

\* C1: the stored bytes of every VarInt that the constructors and set can
\* produce are the minimal encoding of its stored value, and decode to it.
C1_BytesAreEncoding ==
    /\ VarInt_bytes(varint) = to_varint(VarInt_value(varint))
    /\ from_varint_bytes(VarInt_bytes(varint)).panicked = FALSE
    /\ from_varint_bytes(VarInt_bytes(varint)).value = VarInt_value(varint)

\* C9: after set(value) the instance is the one from_i32(value) builds,
\* whatever it was before: the value is the argument, the bytes are its
\* encoding, and nothing of the former bytes or value is left.
C9_SetIsFromI32 ==
    op.name = "set" =>
        /\ varint = VarInt_from_i32(op.value)
        /\ VarInt_value(varint) = op.value
        /\ VarInt_bytes(varint) = to_varint(op.value)

C9_Witness ==
    /\ op.name = "set" /\ op.value = -1
    /\ old = [bytes |-> << 128, 1, 255 >>, value |-> 128]
    /\ varint = [bytes |-> << 255, 255, 255, 255, 15 >>, value |-> -1]

---------------------------------------------------------------------------
(* Properties of an MCString instance.                                     *)

\* The number of bytes of a long vector is n.
VecLenIs(vec, n) == n >= Len(vec.head) /\ n - Len(vec.head) = vec.pad

\* The UTF-8 byte count of a text is within i32.
FitsI32(string) == string.pad <= I32_MAX - Len(Utf8(string.head))
ByteCount(string) == Len(Utf8(string.head)) + string.pad

\* C3: size() of an MCString returns the number of bytes of to_bytes(), the
\* bytes of the length prefix plus the UTF-8 bytes of the content; size()
\* of its VarInt returns the number of bytes of the VarInt's to_bytes().
C3_SizeIsLength ==
    out.size.called =>
        /\ ~out.size.panicked
        /\ VecLenIs(MCString_to_bytes(mcstring), out.size.value)
        /\ out.bytes.called => VecLenIs(out.bytes.vec, out.size.value)
        /\ VarInt_size(mcstring.size) = Len(VarInt_to_bytes(mcstring.size))

\* C8: an MCString built from a text of n UTF-8 bytes, n within i32, has
\* the length prefix n (bytes, not characters), and to_bytes() is the
\* encoding of n followed by the n bytes of the text and nothing else;
\* "Hello!" gives 06 48 65 6C 6C 6F 21.
C8_PrefixThenContent ==
    (pc # "input" /\ FitsI32(text)) =>
        /\ mcstring # NoMCString
        /\ VarInt_value(mcstring.size) = ByteCount(text)
        /\ MCString_to_bytes(mcstring) =
               [head |-> to_varint(ByteCount(text)) \o Utf8(text.head),
                pad |-> text.pad]
        /\ out.bytes.called => out.bytes.vec = MCString_to_bytes(mcstring)
        /\ text = [head |-> Hello, pad |-> 0] =>
               MCString_to_bytes(mcstring) =
                   [head |-> << 6, 72, 101, 108, 108, 111, 33 >>, pad |-> 0]

C8_Witness ==
    /\ out.bytes.called
    /\ text = [head |-> << 8364, 233 >>, pad |-> 0]
    /\ out.bytes.vec = [head |-> << 5, 226, 130, 172, 195, 169 >>, pad |-> 0]

=============================================================================
